---- MODULE Spec2Model ----
(***************************************************************************)
(* Model of the provisioning pipeline of src/main.py: plan (LLM call and   *)
(* one repair), materialize (write_files or ensure_minimal_files), create  *)
(* the GitHub repository, generate .gitignore and .env.example, push the   *)
(* working tree file by file, trigger and poll the Render deploy, print    *)
(* the summary.                                                            *)
(*                                                                         *)
(* Text is modelled as a sequence of tokens.  In a path the tokens "." and *)
(* "/" stand for those characters and every other token is a run of        *)
(* characters holding neither, so "./a.py" is <<".", "/", "a", ".", "py">>.*)
(***************************************************************************)
EXTENDS Integers, Sequences, FiniteSets, TLC

\* ------------------------------------------------------------------ bounds
MaxFiles == 2        \* longest "files" list of a provider reply

\* ------------------------------------------------------- program constants
DefaultTimeout == 600    \* poll_render_deploy(deploy_id, timeout_s = 600)
SleepSeconds == 5        \* time.sleep(5)

\* ------------------------------------------------------------------- paths
Last(s) == s[Len(s)]
Front(s) == SubSeq(s, 1, Len(s) - 1)

RECURSIVE LStripDotSlash(_)
\* str.lstrip("./"): drops every leading character that is '.' or '/'.
LStripDotSlash(p) ==
    IF p = <<>> THEN <<>>
    ELSE IF Head(p) \in {".", "/"} THEN LStripDotSlash(Tail(p))
    ELSE p

\* Index of the last "/" token of p, 0 when there is none.
LastSlash(p) ==
    LET S == {i \in 1..Len(p) : p[i] = "/"}
    IN IF S = {} THEN 0 ELSE CHOOSE i \in S : \A j \in S : j <= i

RECURSIVE RStripSlash(_)
RStripSlash(p) ==
    IF p # <<>> /\ Last(p) = "/" THEN RStripSlash(Front(p)) ELSE p

\* os.path.dirname: the text before the last '/', trailing slashes dropped
\* unless it is made of slashes only.
DirName(p) ==
    LET i == LastSlash(p)
        head == SubSeq(p, 1, i)
    IN IF RStripSlash(head) = <<>> THEN head ELSE RStripSlash(head)

\* os.path.basename: the text after the last '/'.
BaseName(p) == SubSeq(p, LastSlash(p) + 1, Len(p))

RECURSIVE SplitAcc(_, _, _)
SplitAcc(p, cur, acc) ==
    IF p = <<>> THEN Append(acc, cur)
    ELSE IF Head(p) = "/" THEN SplitAcc(Tail(p), <<>>, Append(acc, cur))
    ELSE SplitAcc(Tail(p), Append(cur, Head(p)), acc)

\* The '/'-separated components of a path, each a token sequence.
Split(p) == SplitAcc(p, <<>>, <<>>)

RECURSIVE Join(_)
Join(segs) ==
    IF segs = <<>> THEN <<>>
    ELSE IF Len(segs) = 1 THEN segs[1]
    ELSE segs[1] \o <<"/">> \o Join(Tail(segs))

DotDot == <<".", ".">>
Dot == <<".">>
AbsRoot == <<"/">>

\* A location is a sequence of components relative to the working
\* directory; above it the location starts with ".." components, and an
\* absolute one starts with the component "/".
Parent(loc) ==
    IF loc = <<AbsRoot>> THEN loc
    ELSE IF loc = <<>> \/ Last(loc) = DotDot THEN Append(loc, DotDot)
    ELSE Front(loc)

StartLoc(p) == IF p # <<>> /\ Head(p) = "/" THEN <<AbsRoot>> ELSE <<>>

\* The file name a location has on disk, as path text.
LocPath(loc) ==
    IF loc # <<>> /\ Head(loc) = AbsRoot
    THEN <<"/">> \o Join(Tail(loc))
    ELSE Join(loc)

\* A path text names a place inside the working root.
InsideRoot(path) ==
    /\ path # <<>>
    /\ Head(path) # "/"
    /\ ~(Len(path) >= 2 /\ path[1] = "." /\ path[2] = "."
         /\ (Len(path) = 2 \/ path[3] = "/"))

RECURSIVE WalkSegs(_, _)
\* Resolution of the components of a path from the location cur: "" and
\* "." stay, ".." goes to the parent, a name goes down.
WalkSegs(segs, cur) ==
    IF segs = <<>> THEN cur
    ELSE LET s == Head(segs)
         IN IF s = <<>> \/ s = Dot THEN WalkSegs(Tail(segs), cur)
            ELSE IF s = DotDot THEN WalkSegs(Tail(segs), Parent(cur))
            ELSE WalkSegs(Tail(segs), Append(cur, s))

\* The location a path text names, from the working directory.
ResolveLoc(p) == WalkSegs(Split(p), StartLoc(p))

\* ---------------------------------------------------------------- contents
\* A file content: utf8 says whether its bytes decode as UTF-8; pre and run
\* describe its most credential-like token, a prefix followed by a run of
\* run characters of [A-Za-z0-9] (pre = "" when it has none).  lines holds
\* the text line by line where the program reads it by lines (.env), each
\* line a list of tokens without its newline, and is empty elsewhere.
Content(id, utf8, pre, run) ==
    [id |-> id, utf8 |-> utf8, pre |-> pre, run |-> run, lines |-> <<>>]

\* SECRET_PATTERNS: the prefix each pattern needs and the shortest run it
\* accepts after it.
SECRET_PATTERNS ==
    { [pre |-> "api_key=", min |-> 16],
      [pre |-> "ghp_", min |-> 36],
      [pre |-> "sk-", min |-> 32] }

contains_secret(text) ==
    \E pat \in SECRET_PATTERNS : text.pre = pat.pre /\ text.run >= pat.min

\* -------------------------------------------------------------- filesystem
\* A filesystem is [disk, dirs]: disk maps the path text of every regular
\* file to its content, dirs is the set of path texts of the directories
\* that were created.  The working directory and its ancestors exist.
IsFile(fs, loc) == LocPath(loc) \in DOMAIN fs.disk
IsDir(fs, loc) ==
    \/ loc = <<>>
    \/ loc = <<AbsRoot>>
    \/ Last(loc) = DotDot
    \/ LocPath(loc) \in fs.dirs

Exists(fs, p) == IsFile(fs, ResolveLoc(p)) \/ IsDir(fs, ResolveLoc(p))

PutFile(fs, path, content) ==
    [fs EXCEPT !.disk =
        [q \in DOMAIN fs.disk \cup {path} |->
            IF q = path THEN content ELSE fs.disk[q]]]

RECURSIVE MakeDirsFrom(_, _, _, _)
\* os.makedirs(name, exist_ok=True): every component of name, left to
\* right, is created as a directory unless it is one already; a component
\* that is a regular file raises.  Result: [fs, error].
MakeDirsFrom(fs, segs, k, start) ==
    IF k > Len(segs) THEN [fs |-> fs, error |-> "none"]
    ELSE LET loc == WalkSegs(SubSeq(segs, 1, k), start)
         IN IF IsFile(fs, loc) THEN [fs |-> fs, error |-> "FileExistsError"]
            ELSE IF IsDir(fs, loc) THEN MakeDirsFrom(fs, segs, k + 1, start)
            ELSE MakeDirsFrom([fs EXCEPT !.dirs = @ \cup {LocPath(loc)}],
                              segs, k + 1, start)

makedirs(fs, name) == MakeDirsFrom(fs, Split(name), 1, StartLoc(name))

\* An open that leaves a file that is already there as it is.
OpenWriteKeepFirst(fs, path, content) ==
    LET loc == ResolveLoc(path)
    IN IF path # <<>> /\ IsFile(fs, loc)
       THEN [fs |-> fs, error |-> "none"]
       ELSE IF BaseName(path) \in {<<>>, Dot, DotDot} \/ IsDir(fs, loc)
       THEN [fs |-> fs, error |-> "IsADirectoryError"]
       ELSE [fs |-> PutFile(fs, LocPath(loc), content), error |-> "none"]

\* open(path, "w") followed by write(content): the file is created or
\* truncated; a path that names a directory, or nothing, raises.
OpenWrite(fs, path, content) ==
    LET loc == ResolveLoc(path)
        base == BaseName(path)
    IN IF base = <<>> /\ path = <<>>
       THEN [fs |-> fs, error |-> "FileNotFoundError"]
       ELSE IF base \in {<<>>, Dot, DotDot} \/ IsDir(fs, loc)
       THEN [fs |-> fs, error |-> "IsADirectoryError"]
       ELSE IF ~IsDir(fs, Parent(loc))
       THEN [fs |-> fs, error |-> "FileNotFoundError"]
       ELSE [fs |-> PutFile(fs, LocPath(loc), content), error |-> "none"]

\* The path write_files opens for an entry: f["path"].lstrip("./").
WritePath(path) == LStripDotSlash(path)

\* One iteration of the loop of write_files.
WriteOne(fs, f) ==
    LET path == WritePath(f.path)
        dn == DirName(path)
        md == makedirs(fs, IF dn = <<>> THEN Dot ELSE dn)
    IN IF md.error # "none" THEN md
       ELSE OpenWrite(md.fs, path, f.content)

RECURSIVE write_files(_, _)
\* write_files(files): the entries in order; the first exception ends it.
write_files(fs, files) ==
    IF files = <<>> THEN [fs |-> fs, error |-> "none"]
    ELSE LET r == WriteOne(fs, Head(files))
         IN IF r.error # "none" THEN r
            ELSE write_files(r.fs, Tail(files))

\* ---------------------------------------------------- the generated files
CPrint == Content("print(1)", TRUE, "", 0)
CGhp == Content("gh = ghp_<40 alnum>", TRUE, "ghp_", 40)
\* A .env: a comment, an assignment, and a quoted value that runs over
\* three lines.
EnvLines ==
    << <<"#", " ", "local settings">>,
       <<"api_key", "=", "<20 alnum>">>,
       <<" ", "PRIVATE_KEY", "=", "dquote", "-----BEGIN KEY-----">>,
       <<"MIIEvQIBADANBg">>,
       <<"-----END KEY-----", "dquote">> >>

CEnv == [Content("api_key=<20 alnum>", TRUE, "api_key=", 20) EXCEPT !.lines = EnvLines]
COld == Content("kept from an earlier run", TRUE, "", 0)
CBin == Content("bytes that are not UTF-8", FALSE, "", 0)
CAppMain == Content("minimal app/main.py", TRUE, "", 0)
CRequirements == Content("minimal requirements.txt", TRUE, "", 0)
CDockerfile == Content("minimal Dockerfile", TRUE, "", 0)
CRenderYaml == Content("minimal render.yaml", TRUE, "", 0)
CReadme == Content("minimal README.md", TRUE, "", 0)
CGitignore == Content(".env *.env __pycache__/ ...", TRUE, "", 0)

P_app_main == <<"app", "/", "main", ".", "py">>
P_requirements == <<"requirements", ".", "txt">>
P_Dockerfile == <<"Dockerfile">>
P_render_yaml == <<"render", ".", "yaml">>
P_README == <<"README", ".", "md">>
P_gitignore == <<".", "gitignore">>
P_env == <<".", "env">>
P_env_example == <<".", "env", ".", "example">>

\* The files of ensure_minimal_files, in its order, with what it writes.
MinimalFiles ==
    << [path |-> P_app_main, content |-> CAppMain],
       [path |-> P_requirements, content |-> CRequirements],
       [path |-> P_Dockerfile, content |-> CDockerfile],
       [path |-> P_render_yaml, content |-> CRenderYaml],
       [path |-> P_README, content |-> CReadme] >>

\* A block of ensure_minimal_files without its os.path.exists test.
EnsureOneOverwrite(fs, f) ==
    LET dn == DirName(f.path)
        md == IF f.path = P_app_main THEN makedirs(fs, dn)
              ELSE [fs |-> fs, error |-> "none"]
    IN IF md.error # "none" THEN md
       ELSE OpenWrite(md.fs, f.path, f.content)

\* One `if not os.path.exists(p): ... open(p, "w")` block.
EnsureOne(fs, f) ==
    IF Exists(fs, f.path) THEN [fs |-> fs, error |-> "none"]
    ELSE LET dn == DirName(f.path)
             md == IF f.path = P_app_main THEN makedirs(fs, dn)
                   ELSE [fs |-> fs, error |-> "none"]
         IN IF md.error # "none" THEN md
            ELSE OpenWrite(md.fs, f.path, f.content)

RECURSIVE EnsureFrom(_, _)
EnsureFrom(fs, todo) ==
    IF todo = <<>> THEN [fs |-> fs, error |-> "none"]
    ELSE LET r == EnsureOne(fs, Head(todo))
         IN IF r.error # "none" THEN r ELSE EnsureFrom(r.fs, Tail(todo))

ensure_minimal_files(fs) == EnsureFrom(fs, MinimalFiles)

\* A create_gitignore that writes nothing.
create_gitignoreSkipped(fs) == [fs |-> fs, error |-> "none"]

create_gitignore(fs) == OpenWrite(fs, P_gitignore, CGitignore)

\* "=" in line
HasEq(line) == \E i \in 1..Len(line) : line[i] = "="

RECURSIVE LStripBlank(_)
LStripBlank(line) ==
    IF line # <<>> /\ Head(line) = " " THEN LStripBlank(Tail(line)) ELSE line

RECURSIVE RStripBlank(_)
RStripBlank(line) ==
    IF line # <<>> /\ Last(line) = " " THEN RStripBlank(Front(line)) ELSE line

\* line.strip()
StripBlank(line) == RStripBlank(LStripBlank(line))

\* line.strip().startswith("#")
IsComment(line) == StripBlank(line) # <<>> /\ Head(StripBlank(line)) = "#"

\* line.split("=")[0]
EnvKey(line) ==
    LET i == CHOOSE k \in 1..Len(line) :
                 line[k] = "=" /\ \A j \in 1..(k - 1) : line[j] # "="
    IN SubSeq(line, 1, i - 1)

\* One turn of the loop of create_env_example: the line it appends to
\* example_lines for a line of .env.
MaskLine(line) ==
    IF HasEq(line) /\ ~IsComment(line)
    THEN EnvKey(line) \o <<"=", "YOUR_">> \o EnvKey(line) \o <<"_HERE">>
    ELSE StripBlank(line)

\* The text create_env_example derives from the text of .env, line by
\* line.  A key stays, so an "api_key=" prefix stays, now followed by the
\* 17 characters of YOUR_api_key_HERE.
MaskEnv(text) ==
    [Content("example_lines", TRUE,
             IF text.pre = "api_key=" THEN "api_key=" ELSE "",
             IF text.pre = "api_key=" THEN 17 ELSE 0)
        EXCEPT !.lines = [i \in 1..Len(text.lines) |-> MaskLine(text.lines[i])]]

create_env_example(fs) ==
    IF ~Exists(fs, P_env) THEN [fs |-> fs, error |-> "none"]
    ELSE IF ~IsFile(fs, ResolveLoc(P_env))
    THEN [fs |-> fs, error |-> "IsADirectoryError"]
    ELSE IF ~fs.disk[P_env].utf8
    THEN [fs |-> fs, error |-> "UnicodeDecodeError"]
    ELSE OpenWrite(fs, P_env_example, MaskEnv(fs.disk[P_env]))

\* --------------------------------------------------------- push: the walk
\* str.lower() on the spellings the model's names use.
LowerTok(t) ==
    CASE t = "TOKEN" -> "token"
      [] t = "ENV" -> "env"
      [] OTHER -> t

Lower(p) == [i \in 1..Len(p) |-> LowerTok(p[i])]

\* needle in hay, for texts cut into the same tokens.
Contains(hay, needle) ==
    \E i \in 0..(Len(hay) - Len(needle)) :
        SubSeq(hay, i + 1, i + Len(needle)) = needle

EndsWith(p, suffix) ==
    /\ Len(p) >= Len(suffix)
    /\ SubSeq(p, Len(p) - Len(suffix) + 1, Len(p)) = suffix

\* rel.lower().endswith(".env") or "token" in rel.lower()
SensitiveName(rel) ==
    EndsWith(Lower(rel), <<".", "env">>) \/ Contains(Lower(rel), <<"token">>)

\* mimetypes.guess_type(rel)[0], reduced to its major type ("" for None):
\* the extension is what follows the last '.' of the base name, leading
\* dots aside.
GuessType(rel) ==
    LET base == BaseName(rel)
        D == {i \in 2..(Len(base) - 1) :
                base[i] = "." /\ \E j \in 1..(i - 1) : base[j] # "."}
        i == CHOOSE k \in D : \A j \in D : j <= k
        ext == IF D = {} THEN <<>> ELSE Lower(SubSeq(base, i + 1, Len(base)))
    IN CASE ext \in {<<"py">>, <<"md">>, <<"txt">>} -> "text"
         [] ext = <<"json">> -> "application"
         [] ext = <<"png">> -> "image"
         [] OTHER -> ""

\* is_binary = mime and not mime.startswith("text")
IsBinary(rel) == GuessType(rel) # "" /\ GuessType(rel) # "text"

\* Why push_repo_from_disk does not upload the file rel ("none": it does).
SkipReason(rel, content) ==
    IF SensitiveName(rel) THEN "sensitive-name"
    ELSE IF IsBinary(rel) THEN "none"
    ELSE IF ~content.utf8 THEN "non-text-decode"
    ELSE IF contains_secret(content) THEN "secret-match"
    ELSE "none"

skip_dirs ==
    { <<".", "git">>, <<".", "venv">>, <<"__pycache__">>, <<".", "idea">>,
      <<".", "vscode">>, <<"node_modules">> }

\* The dirpath os.walk(".") reports for the directory of rel.
DirPath(rel) ==
    IF DirName(rel) = <<>> THEN <<".">> ELSE <<".", "/">> \o DirName(rel)

\* any(skip in dirpath for skip in skip_dirs)
SkippedDir(rel) == \E skip \in skip_dirs : Contains(DirPath(rel), skip)

Depth(rel) == Cardinality({i \in 1..Len(rel) : rel[i] = "/"})

RECURSIVE TopDown(_)
\* The files of a set in a top-down order, a directory before its
\* subdirectories.
TopDown(S) ==
    IF S = {} THEN <<>>
    ELSE LET x == CHOOSE x \in S : \A y \in S : Depth(x) <= Depth(y)
         IN <<x>> \o TopDown(S \ {x})

\* The files the loops of push_repo_from_disk reach, in walk order.
WalkList(fs) ==
    TopDown({rel \in DOMAIN fs.disk : InsideRoot(rel) /\ ~SkippedDir(rel)})

\* base64.b64encode(...).decode("utf-8") and what the contents API stores.
B64Encode(content) == [b64 |-> content]
B64Decode(encoded) == encoded.b64

\* ------------------------------------------------------ the provider reply
\* A JSON document: an object with some of the keys "plan" and "files", or
\* a value that is no object.
NoDoc == [type |-> "none", keys |-> {}, plan |-> "", files |-> <<>>]
ObjectDoc(keys, plan, files) ==
    [type |-> "object", keys |-> keys, plan |-> plan, files |-> files]
ArrayDoc == [type |-> "array", keys |-> {}, plan |-> "", files |-> <<>>]

\* A reply text is a sequence of tokens: a backtick, a line break, a word,
\* or the text of a whole JSON document.
Tick == [t |-> "backtick", doc |-> NoDoc]
NL == [t |-> "nl", doc |-> NoDoc]
Word == [t |-> "word", doc |-> NoDoc]
DocText(d) == [t |-> "json", doc |-> d]

RECURSIVE LStrip(_, _)
LStrip(text, chars) ==
    IF text # <<>> /\ Head(text).t \in chars THEN LStrip(Tail(text), chars)
    ELSE text

RECURSIVE RStrip(_, _)
RStrip(text, chars) ==
    IF text # <<>> /\ Last(text).t \in chars THEN RStrip(Front(text), chars)
    ELSE text

\* str.strip(chars); str.strip() is Strip(text, Whitespace).
Strip(text, chars) == RStrip(LStrip(text, chars), chars)
Whitespace == {"nl"}

\* json.loads(text): the document when the text is one JSON document with
\* white space around it at most, JSONDecodeError otherwise.
json_loads(text) ==
    LET body == Strip(text, Whitespace)
    IN IF Len(body) = 1 /\ body[1].t = "json"
       THEN [ok |-> TRUE, value |-> body[1].doc]
       ELSE [ok |-> FALSE, value |-> NoDoc]

\* plan_raw.strip().strip(backtick).strip()
CleanReply(plan_raw) ==
    Strip(Strip(Strip(plan_raw, Whitespace), {"backtick"}), Whitespace)

\* data.get(key, default) on a parsed object.
DictGet(d, key, default) ==
    IF key \notin d.keys THEN default
    ELSE IF key = "plan" THEN d.plan ELSE d.files

\* ------------------------------------------------------------------ inputs
P_dot_slash_a_py == <<".", "/", "a", ".", "py">>
P_a_py == <<"a", ".", "py">>
P_escape == <<"a", "/", ".", ".", "/", ".", ".", "/", "b">>
P_config_json == <<"config", ".", "json">>

Entries ==
    { [path |-> P_dot_slash_a_py, content |-> CPrint],
      [path |-> P_a_py, content |-> CGhp],
      [path |-> P_gitignore, content |-> CPrint],
      [path |-> P_escape, content |-> CPrint] }

FileLists == UNION {[1..n -> Entries] : n \in 0..MaxFiles}

Docs ==
    {ObjectDoc({"plan", "files"}, "steps", fl) : fl \in FileLists}
        \cup {ObjectDoc({}, "", <<>>), ArrayDoc}

\* The shapes a reply comes in: bare, fenced, fenced with a language tag,
\* and prose.
Replies ==
    UNION { { <<DocText(d)>>,
              <<Tick, Tick, Tick, NL, DocText(d), NL, Tick, Tick, Tick>>,
              <<Tick, Tick, Tick, Word, NL, DocText(d), NL, Tick, Tick, Tick>> }
            : d \in Docs }
        \cup {<<Word>>}

EmptyDisk == [q \in {} |-> CPrint]

\* Working directories the run starts in: a fresh one, and one that holds
\* the files of earlier work.
InitialTrees ==
    { [disk |-> EmptyDisk, dirs |-> {}],
      [disk |->
          [q \in { P_env, P_README, P_config_json,
                   <<"my_", "TOKEN", ".", "txt">>, <<"notes", ".", "txt">>,
                   <<"logo", ".", "png">>, <<"a">>,
                   <<".", "git", "/", "config">>,
                   <<".", "git", "hub", "/", "ci", ".", "yaml">> } |->
              CASE q = P_env -> CEnv
                [] q = P_config_json -> CGhp
                [] q \in {<<"notes", ".", "txt">>, <<"logo", ".", "png">>} -> CBin
                [] OTHER -> COld],
       dirs |-> {<<".", "git">>, <<".", "git", "hub">>}] }

\* ------------------------------------------------------------------- state
VARIABLES
    pc,          \* where main is
    err,         \* the exception that ended the run, if any
    cfg,         \* the environment the module-level settings are read from
    tree,        \* the filesystem [disk, dirs]
    llm_calls,   \* provider requests issued
    plan_raw,    \* generate_scaffold's plan_raw: the latest reply text
    data,        \* generate_scaffold's result
    plan,        \* main's plan
    files,       \* main's files
    repo_resp,   \* the response to the create-repository request
    repo,        \* create_github_repo's result
    walk_idx,    \* files of the walk that push_repo_from_disk is done with
    remote,      \* the repository's content: path -> content
    put_log,     \* the PUT requests that went out, in order
    deploy_req,  \* the body of the blueprint-deploys request
    deploy_id,   \* deploy.get("id")
    elapsed,     \* time.time() - start while poll_render_deploy runs; the
                 \* clock moves in time.sleep only
    poll_data,   \* the latest deploy status response
    live_urls,   \* main's live_urls
    stdout       \* what was printed

vars == << pc, err, cfg, tree, llm_calls, plan_raw, data, plan, files, repo_resp, repo,
           walk_idx, remote, put_log, deploy_req, deploy_id, elapsed,
           poll_data, live_urls, stdout >>

NoErr == [stage |-> "", error |-> "none"]
NoResp == [status |-> 0, body403 |-> FALSE]
NoRepo == [html_url |-> ""]
NoDeployReq == [repo |-> "", branch |-> "", clearCache |-> FALSE]
NoPollData == [status |-> "", services |-> <<>>]

Say(msg, arg) == [msg |-> msg, arg |-> arg]

\* The environment variables the run reads: whether GITHUB_TOKEN,
\* GITHUB_OWNER, the API key of the selected provider and RENDER_API_KEY
\* are set, and the values of LLM_PROVIDER and RENDER_REPO_BRANCH.
Env(token, owner, provider, key, render, branch) ==
    [github_token |-> token, github_owner |-> owner, llm_provider |-> provider,
     provider_key |-> key, render_api_key |-> render,
     render_repo_branch |-> branch]

\* The providers call_llm has a branch for.
SupportedProviders == {"groq", "together", "hf"}

\* The environments of the model: complete ones with and without a deploy
\* key, with the default deploy branch and another one, one for each
\* provider, and the ones that lack a setting or name an unknown provider.
Environments ==
    { Env(TRUE, TRUE, "groq", TRUE, TRUE, "main"),
      Env(TRUE, TRUE, "groq", TRUE, TRUE, "dev"),
      Env(TRUE, TRUE, "groq", TRUE, FALSE, "main"),
      Env(TRUE, TRUE, "together", TRUE, FALSE, "main"),
      Env(TRUE, TRUE, "hf", TRUE, FALSE, "dev"),
      Env(FALSE, TRUE, "groq", TRUE, TRUE, "main"),
      Env(TRUE, FALSE, "groq", TRUE, TRUE, "main"),
      Env(TRUE, TRUE, "openai", TRUE, TRUE, "main") }
        \cup {Env(TRUE, TRUE, p, FALSE, TRUE, "main") : p \in SupportedProviders}

FreshTree == [disk |-> EmptyDisk, dirs |-> {}]
UsedTree == CHOOSE t \in InitialTrees : t # FreshTree

\* The working directories a run in the environment e starts in.  The runs
\* that go on to deploy are the long ones: with the default branch they
\* start in the used directory, with the other branch in the fresh one.
TreesOf(e) ==
    IF /\ e.github_token /\ e.github_owner /\ e.provider_key
       /\ e.llm_provider \in SupportedProviders /\ e.render_api_key
    THEN IF e.render_repo_branch = "main" THEN {UsedTree} ELSE {FreshTree}
    ELSE InitialTrees

Init ==
    /\ pc = "start"
    /\ err = NoErr
    /\ cfg \in Environments
    /\ tree \in TreesOf(cfg)
    /\ llm_calls = 0
    /\ plan_raw = <<>>
    /\ data = NoDoc
    /\ plan = ""
    /\ files = <<>>
    /\ repo_resp = NoResp
    /\ repo = NoRepo
    /\ walk_idx = 0
    /\ remote = EmptyDisk
    /\ put_log = <<>>
    /\ deploy_req = NoDeployReq
    /\ deploy_id = ""
    /\ elapsed = 0
    /\ poll_data = NoPollData
    /\ live_urls = <<>>
    /\ stdout = <<>>

\* ----------------------------------------------------------------- network
\* What a provider request ends in: an error status (the RuntimeError of
\* http), a failure of the transport (an exception of requests), or a
\* reply text.
ProviderOutcomes ==
    {[ok |-> FALSE, raises |-> x, text |-> <<>>] :
        x \in {"RuntimeError", "ConnectionError"}}
        \cup {[ok |-> TRUE, raises |-> "none", text |-> r] : r \in Replies}

\* Responses to the create-repository request: the status, and whether the
\* response body holds the characters 403.
CreateResponses ==
    { [status |-> 201, body403 |-> FALSE],
      [status |-> 403, body403 |-> FALSE],
      [status |-> 422, body403 |-> FALSE],
      [status |-> 422, body403 |-> TRUE] }

\* http(): r.status_code >= 400 raises RuntimeError.
HttpRaises(resp) == resp.status >= 400

\* "403" in str(e), for e = RuntimeError("HTTP <status> <url>\n<body>") and
\* the url https://api.github.com/user/repos.
Has403(resp) == resp.status = 403 \/ resp.body403

CreatedUrl == "html_url of the created repository"
SynthesizedUrl == "https://github.com/<GITHUB_OWNER>/<name>"

\* create_github_repo on the response resp: what it returns or raises,
\* and whether it printed its warning.
create_github_repo(resp) ==
    IF ~HttpRaises(resp)
    THEN [error |-> "none", repo |-> [html_url |-> CreatedUrl], warned |-> FALSE]
    ELSE IF Has403(resp)
    THEN [error |-> "none", repo |-> [html_url |-> SynthesizedUrl], warned |-> TRUE]
    ELSE [error |-> "RuntimeError", repo |-> NoRepo, warned |-> FALSE]

TriggerResponses == {"error", "json with id", "json without id", "text"}

SuccessStatuses == {"live", "succeeded"}
FailureStatuses == {"failed", "canceled", "deactivated"}
PendingStatuses == {"build_in_progress"}

\* The services lists of a status response: each service may carry a
\* dashboardUrl and a serviceDetails.url ("" when absent).
ServiceLists ==
    { <<>>,
      <<[dashboardUrl |-> "", url |-> ""]>>,
      <<[dashboardUrl |-> "https://dashboard/svc", url |-> "https://svc.onrender.com"]>> }

StatusResponses ==
    {[status |-> st, services |-> sv] : st \in SuccessStatuses, sv \in ServiceLists}
        \cup {[status |-> st, services |-> <<>>] :
                 st \in FailureStatuses \cup PendingStatuses}

DeployedPlaceholder == "(Render deployed; check dashboard)"
FailedPlaceholder == "(Render deploy failed; check dashboard)"
TimeoutPlaceholder == "(Timed out waiting for Render)"

RECURSIVE ServiceUrls(_)
\* The urls list poll_render_deploy collects from data["services"].
ServiceUrls(services) ==
    IF services = <<>> THEN <<>>
    ELSE LET sv == Head(services)
         IN (IF sv.dashboardUrl # "" THEN <<sv.dashboardUrl>> ELSE <<>>)
            \o (IF sv.url # "" THEN <<sv.url>> ELSE <<>>)
            \o ServiceUrls(Tail(services))

\* A loop condition that lets one more round start at the deadline.
PollContinueInclusive(t, timeout_s) == t <= timeout_s

\* The loop condition of poll_render_deploy.
PollContinue(t, timeout_s) == t < timeout_s

\* A poll_render_deploy whose failure test misses "canceled".
PollBranchMissesCanceled(resp) ==
    IF resp.status \in SuccessStatuses
    THEN [returns |-> TRUE,
          value |-> IF ServiceUrls(resp.services) # <<>>
                    THEN ServiceUrls(resp.services)
                    ELSE <<DeployedPlaceholder>>]
    ELSE IF resp.status \in {"failed", "deactivated"}
    THEN [returns |-> TRUE, value |-> <<FailedPlaceholder>>]
    ELSE [returns |-> FALSE, value |-> <<>>]

\* What one status response makes poll_render_deploy do: return a value,
\* or sleep and go round.
PollBranch(resp) ==
    IF resp.status \in SuccessStatuses
    THEN [returns |-> TRUE,
          value |-> IF ServiceUrls(resp.services) # <<>>
                    THEN ServiceUrls(resp.services)
                    ELSE <<DeployedPlaceholder>>]
    ELSE IF resp.status \in FailureStatuses
    THEN [returns |-> TRUE, value |-> <<FailedPlaceholder>>]
    ELSE [returns |-> FALSE, value |-> <<>>]

\* ----------------------------------------------------------------- actions
Abort(stage, error) ==
    /\ pc' = "aborted"
    /\ err' = [stage |-> stage, error |-> error]

\* generate_scaffold's first parse: json.loads of the cleaned reply.
FirstParse(raw) == json_loads(CleanReply(raw))

\* A generate_scaffold that swallowed the second parse failure and returned
\* an empty result.
RepairParseSwallow(raw) ==
    LET r == json_loads(raw)
    IN IF r.ok THEN [error |-> "none", data |-> r.value]
       ELSE [error |-> "none", data |-> ObjectDoc({}, "", <<>>)]

\* generate_scaffold's except branch, after the repair call returned raw:
\* return json.loads(plan_raw), with no handler around it.
RepairParse(raw) ==
    LET r == json_loads(raw)
    IN IF r.ok THEN [error |-> "none", data |-> r.value]
       ELSE [error |-> "JSONDecodeError", data |-> NoDoc]

\* The guard of the script: need("GITHUB_TOKEN"); need("GITHUB_OWNER"),
\* then main().
Startup ==
    /\ pc = "start"
    /\ IF cfg.github_token /\ cfg.github_owner
       THEN pc' = "plan" /\ err' = err
       ELSE Abort("start", "SystemExit: Missing setting")
    /\ UNCHANGED << cfg, tree, llm_calls, plan_raw, data, plan, files, repo_resp,
                    repo, walk_idx, remote, put_log, deploy_req, deploy_id,
                    elapsed, poll_data, live_urls, stdout >>

\* A call_llm that sends its request before it looks at the settings.
call_llmChecksLate(c, out) ==
    IF ~out.ok
    THEN [error |-> IF out.raises = "RuntimeError" THEN "SystemExit"
                    ELSE out.raises,
          text |-> <<>>, sent |-> TRUE]
    ELSE IF c.llm_provider \notin SupportedProviders
    THEN [error |-> "SystemExit: Unsupported LLM_PROVIDER", text |-> <<>>,
          sent |-> TRUE]
    ELSE IF ~c.provider_key
    THEN [error |-> "SystemExit: Missing API key", text |-> <<>>, sent |-> TRUE]
    ELSE [error |-> "none", text |-> Strip(out.text, Whitespace), sent |-> TRUE]

\* call_llm in the environment c, when the request it sends (if it sends
\* one) ends in out: the branch of the provider fails on a missing key
\* before http is called, http's RuntimeError becomes the SystemExit of
\* "LLM call failed" (error "SystemExit"), any other exception of the
\* request passes through, the reply is stripped, and no branch at all
\* ends in "Unsupported LLM_PROVIDER".  sent says whether a
\* request went out.
call_llm(c, out) ==
    IF c.llm_provider \notin SupportedProviders
    THEN [error |-> "SystemExit: Unsupported LLM_PROVIDER", text |-> <<>>,
          sent |-> FALSE]
    ELSE IF ~c.provider_key
    THEN [error |-> "SystemExit: Missing API key", text |-> <<>>, sent |-> FALSE]
    ELSE IF ~out.ok
    THEN [error |-> IF out.raises = "RuntimeError" THEN "SystemExit"
                    ELSE out.raises,
          text |-> <<>>, sent |-> TRUE]
    ELSE [error |-> "none", text |-> Strip(out.text, Whitespace), sent |-> TRUE]

\* A generate_scaffold that answers a failed first call with the repair
\* call.
PlanFirstCallRepairsOnError ==
    /\ pc = "plan"
    /\ stdout' = Append(stdout, Say("Planning project", <<>>))
    /\ \E out \in ProviderOutcomes :
          LET r == call_llm(cfg, out)
          IN /\ llm_calls' = IF r.sent THEN llm_calls + 1 ELSE llm_calls
             /\ err' = err
             /\ plan_raw' = r.text
             /\ IF r.error = "none" /\ FirstParse(r.text).ok
                THEN data' = FirstParse(r.text).value /\ pc' = "materialize"
                ELSE data' = data /\ pc' = "repair"
    /\ UNCHANGED << cfg, tree, plan, files, repo_resp, repo, walk_idx, remote,
                    put_log, deploy_req, deploy_id, elapsed, poll_data,
                    live_urls >>

\* main, lines 251-252, and generate_scaffold up to its first parse: the
\* first provider call.
PlanFirstCall ==
    /\ pc = "plan"
    /\ stdout' = Append(stdout, Say("Planning project", <<>>))
    /\ \E out \in ProviderOutcomes :
          LET r == call_llm(cfg, out)
          IN /\ llm_calls' = IF r.sent THEN llm_calls + 1 ELSE llm_calls
             /\ IF r.error # "none"
                THEN /\ Abort("plan", r.error)
                     /\ UNCHANGED << plan_raw, data >>
                ELSE /\ plan_raw' = r.text
                     /\ err' = err
                     /\ IF FirstParse(r.text).ok
                        THEN /\ data' = FirstParse(r.text).value
                             /\ pc' = "materialize"
                        ELSE data' = data /\ pc' = "repair"
    /\ UNCHANGED << cfg, tree, plan, files, repo_resp, repo, walk_idx, remote,
                    put_log, deploy_req, deploy_id, elapsed, poll_data,
                    live_urls >>

\* generate_scaffold, the except branch: the one repair call.
PlanRepairCall ==
    /\ pc = "repair"
    /\ \E out \in ProviderOutcomes :
          LET c == call_llm(cfg, out)
              r == RepairParse(c.text)
          IN /\ llm_calls' = IF c.sent THEN llm_calls + 1 ELSE llm_calls
             /\ IF c.error # "none"
                THEN /\ Abort("plan", c.error)
                     /\ UNCHANGED << plan_raw, data >>
                ELSE /\ plan_raw' = c.text
                     /\ data' = r.data
                     /\ IF r.error = "none"
                        THEN pc' = "materialize" /\ err' = err
                        ELSE Abort("plan", r.error)
    /\ UNCHANGED << cfg, tree, plan, files, repo_resp, repo, walk_idx, remote,
                    put_log, deploy_req, deploy_id, elapsed, poll_data,
                    live_urls, stdout >>

\* main's choice between write_files and ensure_minimal_files: `if files`.
UseFallback(fl) == fl = <<>>

\* main, lines 253-261.  A reply that parsed to something other than an
\* object has no get().
Materialize ==
    /\ pc = "materialize"
    /\ plan_raw' = <<>>
    /\ IF data.type # "object"
       THEN /\ Abort("materialize", "AttributeError")
            /\ UNCHANGED << plan, files, tree, stdout >>
       ELSE LET fl == DictGet(data, "files", <<>>)
                r == IF UseFallback(fl) THEN ensure_minimal_files(tree)
                     ELSE write_files(tree, fl)
            IN /\ plan' = DictGet(data, "plan", "")
               /\ files' = fl
               /\ stdout' = Append(stdout,
                     IF UseFallback(fl)
                     THEN Say("LLM returned no files; creating minimal scaffold", <<>>)
                     ELSE Say("Writing LLM-generated files", <<>>))
               /\ tree' = r.fs
               /\ IF r.error = "none"
                  THEN pc' = "create_repo" /\ err' = err
                  ELSE Abort("materialize", r.error)
    /\ UNCHANGED << cfg, llm_calls, data, repo_resp, repo, walk_idx, remote,
                    put_log, deploy_req, deploy_id, elapsed, poll_data,
                    live_urls >>

\* main, lines 263-264: the create-repository request.
CreateRepo ==
    /\ pc = "create_repo"
    /\ \E resp \in CreateResponses :
          LET r == create_github_repo(resp)
          IN /\ repo_resp' = resp
             /\ repo' = r.repo
             /\ stdout' =
                   Append(stdout, Say("Creating GitHub repo and pushing files", <<>>))
                   \o (IF r.warned
                       THEN <<Say("No permission to create repo", <<>>)>>
                       ELSE <<>>)
             /\ IF r.error = "none"
                THEN pc' = "safety_files" /\ err' = err
                ELSE Abort("create_repo", r.error)
    /\ UNCHANGED << cfg, tree, llm_calls, plan_raw, data, plan, files, walk_idx,
                    remote, put_log, deploy_req, deploy_id, elapsed, poll_data,
                    live_urls >>

\* main, lines 266-267: create_gitignore, then create_env_example.
SafetyFiles ==
    /\ pc = "safety_files"
    /\ LET g == create_gitignore(tree)
           e == IF g.error = "none" THEN create_env_example(g.fs) ELSE g
       IN /\ tree' = e.fs
          /\ IF e.error = "none"
             THEN pc' = "push" /\ err' = err
             ELSE Abort("safety_files", e.error)
    /\ walk_idx' = 0
    /\ UNCHANGED << cfg, llm_calls, plan_raw, data, plan, files, repo_resp, repo,
                    remote, put_log, deploy_req, deploy_id, elapsed, poll_data,
                    live_urls, stdout >>

\* The request push_repo_from_disk sends for the file rel.
PutRequest(rel, content) ==
    [path |-> rel, message |-> <<"Add">> \o rel,
     content |-> B64Encode(content), branch |-> "main"]

\* A contents store that keeps the file a path already has and files the
\* new content under another name.
UploadBeside(rem, req) ==
    LET at == IF req.path \in DOMAIN rem THEN Append(req.path, "~") ELSE req.path
    IN [q \in DOMAIN rem \cup {at} |->
           IF q = at THEN B64Decode(req.content) ELSE rem[q]]

\* The repository content after the PUT request req succeeded: the file at
\* req.path holds the decoded content.
Upload(rem, req) ==
    [q \in DOMAIN rem \cup {req.path} |->
        IF q = req.path THEN B64Decode(req.content) ELSE rem[q]]

RECURSIVE PushFrom(_, _, _)
\* The loops of push_repo_from_disk over the files walk that are still to
\* come, every PUT succeeding.
PushFrom(fs, rem, walk) ==
    IF walk = <<>> THEN rem
    ELSE LET rel == Head(walk)
             content == fs.disk[rel]
         IN PushFrom(fs,
                     IF SkipReason(rel, content) # "none" THEN rem
                     ELSE Upload(rem, PutRequest(rel, content)),
                     Tail(walk))

\* push_repo_from_disk(owner, repo, ".") on the tree fs and the repository
\* content rem, every PUT succeeding: the repository content it leaves.
push_repo_from_disk(fs, rem) == PushFrom(fs, rem, WalkList(fs))

\* A push_repo_from_disk that goes on to the next file when a PUT fails.
PushFileSkipsFailure ==
    /\ pc = "push"
    /\ walk_idx < Len(WalkList(tree))
    /\ LET rel == WalkList(tree)[walk_idx + 1]
           content == tree.disk[rel]
           reason == SkipReason(rel, content)
           req == PutRequest(rel, content)
       IN IF reason # "none"
          THEN /\ stdout' = Append(stdout, Say("Skipping " \o reason, rel))
               /\ UNCHANGED << remote, put_log >>
          ELSE /\ stdout' = IF IsBinary(rel)
                            THEN Append(stdout, Say("Encoding binary file", rel))
                            ELSE stdout
               /\ put_log' = Append(put_log, req)
               /\ \E ok \in BOOLEAN :
                     remote' = IF ok THEN Upload(remote, req) ELSE remote
    /\ walk_idx' = walk_idx + 1
    /\ UNCHANGED << pc, err, cfg, tree, llm_calls, plan_raw, data, plan, files,
                    repo_resp, repo, deploy_req, deploy_id, elapsed, poll_data,
                    live_urls >>

\* One iteration of the inner loop of push_repo_from_disk: the next file
\* of the walk is skipped, or sent with a PUT that succeeds or raises.
PushFile ==
    /\ pc = "push"
    /\ walk_idx < Len(WalkList(tree))
    /\ LET rel == WalkList(tree)[walk_idx + 1]
           content == tree.disk[rel]
           reason == SkipReason(rel, content)
           req == PutRequest(rel, content)
       IN IF reason # "none"
          THEN /\ stdout' = Append(stdout, Say("Skipping " \o reason, rel))
               /\ walk_idx' = walk_idx + 1
               /\ UNCHANGED << pc, err, remote, put_log >>
          ELSE /\ stdout' = IF IsBinary(rel)
                            THEN Append(stdout, Say("Encoding binary file", rel))
                            ELSE stdout
               /\ put_log' = Append(put_log, req)
               /\ \E ok \in BOOLEAN :
                     IF ok
                     THEN /\ remote' = Upload(remote, req)
                          /\ walk_idx' = walk_idx + 1
                          /\ UNCHANGED << pc, err >>
                     ELSE /\ Abort("push", "RuntimeError")
                          /\ UNCHANGED << remote, walk_idx >>
    /\ UNCHANGED << cfg, tree, llm_calls, plan_raw, data, plan, files, repo_resp,
                    repo, deploy_req, deploy_id, elapsed, poll_data, live_urls >>

\* A main that triggers the deploy whether or not RENDER_API_KEY is set.
PushDoneAlwaysDeploys ==
    /\ pc = "push"
    /\ walk_idx = Len(WalkList(tree))
    /\ pc' = "deploy"
    /\ stdout' = Append(stdout, Say("Repo ready", <<>>))
    /\ UNCHANGED << err, cfg, tree, llm_calls, plan_raw, data, plan, files,
                    repo_resp, repo, walk_idx, remote, put_log, deploy_req,
                    deploy_id, elapsed, poll_data, live_urls >>

\* main, lines 271-282, once the walk is over.
PushDone ==
    /\ pc = "push"
    /\ walk_idx = Len(WalkList(tree))
    /\ IF cfg.render_api_key
       THEN /\ pc' = "deploy"
            /\ stdout' = Append(stdout, Say("Repo ready", <<>>))
       ELSE /\ pc' = "summary"
            /\ stdout' = stdout \o << Say("Repo ready", <<>>),
                                      Say("No Render API key provided", <<>>) >>
    /\ UNCHANGED << err, cfg, tree, llm_calls, plan_raw, data, plan, files,
                    repo_resp, repo, walk_idx, remote, put_log, deploy_req,
                    deploy_id, elapsed, poll_data, live_urls >>

\* main, lines 276-280: trigger_render_blueprint, deploy.get("id") and the
\* entry of poll_render_deploy.
TriggerDeploy ==
    /\ pc = "deploy"
    /\ stdout' = Append(stdout, Say("Triggering Render Blueprint deploy", <<>>))
    /\ deploy_req' = [repo |-> SynthesizedUrl, branch |-> cfg.render_repo_branch,
                      clearCache |-> TRUE]
    /\ \E resp \in TriggerResponses :
          CASE resp = "error" ->
                  Abort("deploy", "RuntimeError") /\ deploy_id' = deploy_id
            [] resp = "text" ->
                  Abort("deploy", "AttributeError") /\ deploy_id' = deploy_id
            [] resp = "json without id" ->
                  pc' = "summary" /\ err' = err /\ deploy_id' = deploy_id
            [] resp = "json with id" ->
                  pc' = "poll" /\ err' = err /\ deploy_id' = "id of the deploy"
    /\ elapsed' = 0
    /\ UNCHANGED << cfg, tree, llm_calls, plan_raw, data, plan, files, repo_resp,
                    repo, walk_idx, remote, put_log, poll_data, live_urls >>

\* poll_render_deploy, lines 163-174: the loop test, one status request and
\* the two tests on its status.
PollRequest ==
    /\ pc = "poll"
    /\ IF PollContinue(elapsed, DefaultTimeout)
       THEN \E out \in {[ok |-> FALSE, resp |-> NoPollData]}
                          \cup {[ok |-> TRUE, resp |-> r] : r \in StatusResponses} :
               IF ~out.ok
               THEN /\ Abort("poll", "RuntimeError")
                    /\ elapsed' = 0
                    /\ UNCHANGED << poll_data, live_urls >>
               ELSE /\ poll_data' = out.resp
                    /\ err' = err
                    /\ IF PollBranch(out.resp).returns
                       THEN /\ live_urls' = PollBranch(out.resp).value
                            /\ pc' = "summary"
                            /\ elapsed' = 0
                       ELSE /\ live_urls' = live_urls
                            /\ pc' = "poll_sleep"
                            /\ elapsed' = elapsed
       ELSE /\ live_urls' = <<TimeoutPlaceholder>>
            /\ pc' = "summary"
            /\ elapsed' = 0
            /\ UNCHANGED << err, poll_data >>
    /\ UNCHANGED << cfg, tree, llm_calls, plan_raw, data, plan, files, repo_resp,
                    repo, walk_idx, remote, put_log, deploy_req, deploy_id,
                    stdout >>

\* poll_render_deploy, line 175: time.sleep(5).
PollSleep ==
    /\ pc = "poll_sleep"
    /\ elapsed' = elapsed + SleepSeconds
    /\ pc' = "poll"
    /\ UNCHANGED << err, cfg, tree, llm_calls, plan_raw, data, plan, files,
                    repo_resp, repo, walk_idx, remote, put_log, deploy_req,
                    deploy_id, poll_data, live_urls, stdout >>

\* main, lines 284-290: the summary, with one Live line for each of
\* live_urls.
Summary ==
    /\ pc = "summary"
    /\ stdout' = Append(stdout, Say("Summary", live_urls))
    /\ pc' = "done"
    /\ UNCHANGED << err, cfg, tree, llm_calls, plan_raw, data, plan, files,
                    repo_resp, repo, walk_idx, remote, put_log, deploy_req,
                    deploy_id, elapsed, poll_data, live_urls >>

Next ==
    \/ Startup
    \/ PlanFirstCall
    \/ PlanRepairCall
    \/ Materialize
    \/ CreateRepo
    \/ SafetyFiles
    \/ PushFile
    \/ PushDone
    \/ TriggerDeploy
    \/ PollRequest
    \/ PollSleep
    \/ Summary

Spec == Init /\ [][Next]_vars

\* poll_render_deploy runs in the one thread of the program, which goes on
\* until it returns or raises: a status request or a sleep that is due is
\* not put off for ever.
FairSpec ==
    Spec /\ WF_vars(PollRequest) /\ WF_vars(PollSleep) /\ WF_vars(Summary)

\* ------------------------------------------------------------------ claims
InPoll == pc \in {"poll", "poll_sleep"}
Printed(msg) == \E i \in 1..Len(stdout) : stdout[i].msg = msg

\* C1: push_repo_from_disk never sends a PUT for a file whose relative path
\* ends in ".env" or contains "token" (case-insensitive), nor for a file
\* whose decoded content matches contains_secret, whatever its name,
\* extension or guessed content type.
C1_NoSensitiveUpload ==
    \A i \in 1..Len(put_log) :
        LET rel == put_log[i].path
            content == B64Decode(put_log[i].content)
        IN /\ ~SensitiveName(rel)
           /\ ~(content.utf8 /\ contains_secret(content))

\* C1, the part the code keeps: no PUT for a sensitive name, nor for a file
\* it read as text whose content matches contains_secret.
C1_TextFilesScreened ==
    \A i \in 1..Len(put_log) :
        LET rel == put_log[i].path
            content == B64Decode(put_log[i].content)
        IN /\ ~SensitiveName(rel)
           /\ (content.utf8 /\ contains_secret(content)) => IsBinary(rel)

\* C2: a malformed first reply is followed by exactly one repair call, so a
\* plan makes two provider calls at most; when the repair reply is malformed
\* too the run ends with the parse error, with no result, no file written,
\* no repository created and nothing uploaded.
C2_RepairOnceThenFatal ==
    /\ llm_calls <= 2
    /\ pc = "repair" => llm_calls = 1 /\ ~FirstParse(plan_raw).ok
    /\ (llm_calls = 2 /\ plan_raw # <<>> /\ ~json_loads(plan_raw).ok) =>
          /\ pc = "aborted"
          /\ err.stage = "plan"
          /\ err.error \in {"JSONDecodeError", "SystemExit", "ConnectionError"}
          /\ data = NoDoc
          /\ files = <<>>
          /\ tree \in InitialTrees
          /\ repo_resp = NoResp
          /\ put_log = <<>>
          /\ remote = EmptyDisk
          /\ ~Printed("Summary")

\* C2's case: both replies were malformed and the run ended on the second
\* parse.
C2_Witness ==
    /\ pc = "aborted"
    /\ llm_calls = 2
    /\ err = [stage |-> "plan", error |-> "JSONDecodeError"]
    /\ ~json_loads(plan_raw).ok

\* C3: poll_render_deploy ends whenever its status requests return; begun
\* at or past the timeout, a round returns the timeout placeholder with no
\* request; and once a status of live or succeeded has arrived poll has
\* returned the discovered urls, or the deployed placeholder when there
\* are none, without a further request or sleep.
C3_PollEndsAndReturnsAtOnce ==
    /\ InPoll ~> ~InPoll
    /\ [][(pc = "poll" /\ elapsed >= DefaultTimeout) =>
             /\ pc' = "summary"
             /\ live_urls' = <<TimeoutPlaceholder>>
             /\ poll_data' = poll_data]_vars
    /\ [][(pc = "poll" /\ elapsed < DefaultTimeout) =>
             live_urls' # <<TimeoutPlaceholder>>]_vars
    /\ [](poll_data.status \in SuccessStatuses =>
             /\ pc \in {"summary", "done"}
             /\ live_urls = IF ServiceUrls(poll_data.services) # <<>>
                            THEN ServiceUrls(poll_data.services)
                            ELSE <<DeployedPlaceholder>>)

\* C3's case: every status stayed pending and poll returned at the timeout.
C3_Witness ==
    /\ pc = "summary"
    /\ poll_data.status \in PendingStatuses
    /\ live_urls = <<TimeoutPlaceholder>>

\* C4: poll_render_deploy loops in the pending state only; a status of
\* failed, canceled or deactivated makes it return the failure placeholder
\* as a value, with no exception and no further round; and what it returns
\* is a non-empty list of urls, the deployed placeholder, the failure
\* placeholder or the timeout placeholder.
C4_PollOutcomes ==
    /\ InPoll => poll_data.status \notin (SuccessStatuses \cup FailureStatuses)
    /\ poll_data.status \in FailureStatuses =>
          /\ pc \in {"summary", "done"}
          /\ err = NoErr
          /\ live_urls = <<FailedPlaceholder>>
    /\ (pc \in {"summary", "done"} /\ deploy_id # "") =>
          \/ live_urls = <<FailedPlaceholder>> /\ poll_data.status \in FailureStatuses
          \/ live_urls = <<TimeoutPlaceholder>> /\ poll_data.status \in PendingStatuses \cup {""}
          \/ live_urls = <<DeployedPlaceholder>> /\ poll_data.status \in SuccessStatuses
          \/ /\ live_urls # <<>>
             /\ live_urls = ServiceUrls(poll_data.services)
             /\ poll_data.status \in SuccessStatuses

\* C4's case: the deploy was canceled and the run went on to its summary
\* with the failure placeholder.
C4_Witness ==
    /\ pc = "done"
    /\ poll_data.status = "canceled"
    /\ live_urls = <<FailedPlaceholder>>
    /\ err = NoErr

\* C5: whatever the path of an entry, ".." components and absolute paths
\* included, write_files creates or overwrites files inside the working
\* root only.
C5_WriteStaysInsideRoot == \A q \in DOMAIN tree.disk : InsideRoot(q)

RECURSIVE RemoveDotSlash(_)
\* A path without its leading "./" prefixes, the normalisation C6 names.
RemoveDotSlash(p) ==
    IF Len(p) >= 2 /\ p[1] = "." /\ p[2] = "/"
    THEN RemoveDotSlash(SubSeq(p, 3, Len(p)))
    ELSE p

ClaimedPath(p) == LocPath(ResolveLoc(RemoveDotSlash(p)))

\* The file write_files opens for the path p.
Target(p) == LocPath(ResolveLoc(WritePath(p)))

\* C6: after write_files, every entry's content is stored at the entry's
\* path with a leading "./" removed and nothing else changed (the last
\* entry's, where several name that path): "./a.py" at "a.py", ".gitignore"
\* at ".gitignore".
C6_WrittenAtStrippedPath ==
    (pc = "create_repo" /\ files # <<>>) =>
        \A i \in 1..Len(files) :
            LET want == ClaimedPath(files[i].path)
            IN (\A j \in (i + 1)..Len(files) : ClaimedPath(files[j].path) # want) =>
                  /\ want \in DOMAIN tree.disk
                  /\ tree.disk[want] = files[i].content

\* C6, the part the code keeps: the same for the entries whose path starts
\* with no '.' or '/' once its "./" prefixes are removed.
C6_PlainPathsWrittenAsGiven ==
    (pc = "create_repo" /\ files # <<>>) =>
        \A i \in 1..Len(files) :
            LET want == ClaimedPath(files[i].path)
            IN (/\ WritePath(files[i].path) = RemoveDotSlash(files[i].path)
                /\ \A j \in (i + 1)..Len(files) : Target(files[j].path) # want) =>
                  /\ want \in DOMAIN tree.disk
                  /\ tree.disk[want] = files[i].content

MinimalPaths == {MinimalFiles[k].path : k \in 1..Len(MinimalFiles)}

\* C7: main takes the fallback exactly when the result's files list is
\* empty or missing; ensure_minimal_files then leaves every file that is
\* there as it is, creates nothing but its five files, each with its fixed
\* content and only where nothing of that name existed; and with a
\* non-empty list no fallback file appears that the list did not write.
C7_FallbackOnlyFillsGaps ==
    [][(pc = "materialize" /\ data.type = "object") =>
          LET fl == DictGet(data, "files", <<>>)
          IN IF fl = <<>>
             THEN /\ Last(stdout').msg = "LLM returned no files; creating minimal scaffold"
                  /\ \A q \in DOMAIN tree.disk :
                        q \in DOMAIN tree'.disk /\ tree'.disk[q] = tree.disk[q]
                  /\ \A q \in DOMAIN tree'.disk \ DOMAIN tree.disk :
                        \E k \in 1..Len(MinimalFiles) :
                            /\ MinimalFiles[k].path = q
                            /\ tree'.disk[q] = MinimalFiles[k].content
                            /\ ~Exists(tree, q)
                  /\ pc' = "create_repo" =>
                        \A q \in MinimalPaths : Exists(tree', q)
             ELSE /\ Last(stdout').msg = "Writing LLM-generated files"
                  /\ \A q \in MinimalPaths \ DOMAIN tree.disk :
                        q \in DOMAIN tree'.disk =>
                            \E i \in 1..Len(fl) : Target(fl[i].path) = q]_vars

\* C7's case: the list was empty, README.md was there and is as it was,
\* Dockerfile was missing and has the fallback's content.
C7_Witness ==
    /\ pc = "create_repo"
    /\ files = <<>>
    /\ Last(stdout).msg = "LLM returned no files; creating minimal scaffold"
    /\ P_README \in DOMAIN tree.disk /\ tree.disk[P_README] = COld
    /\ P_Dockerfile \in DOMAIN tree.disk /\ tree.disk[P_Dockerfile] = CDockerfile

\* C8: writing the file set again leaves the tree as the first write left
\* it (also when the write raised), and after a write that returned, the
\* content at the path write_files opens for an entry is that of the last
\* entry with that path.
C8_WriteIdempotentLastWins ==
    (/\ files # <<>>
     /\ pc = "create_repo" \/ (pc = "aborted" /\ err.stage = "materialize")) =>
        /\ write_files(tree, files).fs = tree
        /\ write_files(tree, files).error = err.error
        /\ pc = "create_repo" =>
              \A i \in 1..Len(files) :
                  (\A j \in (i + 1)..Len(files) :
                        Target(files[j].path) # Target(files[i].path)) =>
                      /\ Target(files[i].path) \in DOMAIN tree.disk
                      /\ tree.disk[Target(files[i].path)] = files[i].content

\* C8's case: two entries with one normalized path and different contents
\* were written, and the second one's content is on disk.
C8_Witness ==
    /\ pc = "create_repo"
    /\ Len(files) = 2
    /\ Target(files[1].path) = Target(files[2].path)
    /\ files[1].content # files[2].content
    /\ tree.disk[Target(files[2].path)] = files[2].content
    /\ write_files(tree, files).fs = tree

\* C9: a 403 on the create-repository request gives the warning and the
\* synthesized url and the run goes on; any other error status, whatever
\* the response body holds, ends the run in create_github_repo with no PUT
\* and no deploy request.
C9_OnlyForbiddenIsSoft ==
    /\ repo_resp.status = 403 =>
          /\ repo.html_url = SynthesizedUrl
          /\ Printed("No permission to create repo")
          /\ err.stage # "create_repo"
    /\ (repo_resp.status >= 400 /\ repo_resp.status # 403) =>
          /\ pc = "aborted"
          /\ err = [stage |-> "create_repo", error |-> "RuntimeError"]
          /\ put_log = <<>>
          /\ deploy_req = NoDeployReq

\* C9, what the code does: the soft failure is taken whenever the text of
\* the error holds the characters 403, in the status or in the body.
C9_SoftOnAny403Text ==
    /\ (repo_resp.status >= 400 /\ Has403(repo_resp)) =>
          /\ repo.html_url = SynthesizedUrl
          /\ Printed("No permission to create repo")
          /\ err.stage # "create_repo"
    /\ (repo_resp.status >= 400 /\ ~Has403(repo_resp)) =>
          /\ pc = "aborted"
          /\ err = [stage |-> "create_repo", error |-> "RuntimeError"]
          /\ put_log = <<>>
          /\ deploy_req = NoDeployReq

\* What the stages after the stage `failed` leave behind when they have
\* not acted.
NothingAfter(failed) ==
    /\ failed = "plan" =>
          /\ tree \in InitialTrees
          /\ ~Printed("Writing LLM-generated files")
          /\ ~Printed("LLM returned no files; creating minimal scaffold")
    /\ failed \in {"plan", "materialize"} => repo_resp = NoResp
    /\ failed \in {"plan", "materialize", "create_repo", "safety_files"} =>
          put_log = <<>> /\ remote = EmptyDisk
    /\ failed \in {"plan", "materialize", "create_repo", "safety_files", "push"} =>
          deploy_req = NoDeployReq
    /\ failed # "poll" => poll_data = NoPollData
    /\ ~Printed("Summary")

\* C10: a fatal error in any stage (an exception of plan, write, push,
\* deploy trigger or status request; on create repo any error status other
\* than 403) ends the run: no later stage acts and no summary is printed.
C10_FatalErrorAbortsRun ==
    LET failed == IF repo_resp.status >= 400 /\ repo_resp.status # 403
                  THEN "create_repo"
                  ELSE err.stage
    IN failed # "" => pc = "aborted" /\ NothingAfter(failed)

\* C10, the part the code keeps: an exception that leaves its stage ends
\* the run, no later stage acts and no summary is printed.
C10_RaisedErrorAbortsRun ==
    /\ err # NoErr => pc = "aborted" /\ NothingAfter(err.stage)
    /\ Printed("Summary") => err = NoErr /\ pc = "done"

\* ---------------------------------------------------------------------
\* The content push_repo_from_disk has uploaded once it is done with the
\* first k files of the walk of fs.
UploadedUpTo(fs, k) ==
    LET S == {WalkList(fs)[i] : i \in 1..k}
    IN [rel \in {r \in S : SkipReason(r, fs.disk[r]) = "none"} |-> fs.disk[rel]]

\* C11: a PUT that fails while the tree is pushed ends the run with the
\* error: the failed request is the last one sent, the files uploaded
\* before it stay uploaded and no file after it in walk order is; as long
\* as the run goes on every request sent has been stored; and a file
\* skipped for its name, its bytes or a secret match only moves the walk
\* on to the next file.
C11_PutFailureIsFatal ==
    /\ [](err.stage = "push" =>
             /\ pc = "aborted"
             /\ err.error = "RuntimeError"
             /\ walk_idx < Len(WalkList(tree))
             /\ put_log # <<>>
             /\ Last(put_log).path = WalkList(tree)[walk_idx + 1]
             /\ remote = UploadedUpTo(tree, walk_idx)
             /\ deploy_req = NoDeployReq
             /\ ~Printed("Repo ready"))
    /\ [](err.stage # "push" =>
             \A i \in 1..Len(put_log) :
                 /\ put_log[i].path \in DOMAIN remote
                 /\ remote[put_log[i].path] = B64Decode(put_log[i].content))
    /\ [][err.stage = "push" => put_log' = put_log /\ remote' = remote]_vars
    /\ [][(/\ pc = "push"
           /\ walk_idx < Len(WalkList(tree))
           /\ SkipReason(WalkList(tree)[walk_idx + 1],
                         tree.disk[WalkList(tree)[walk_idx + 1]]) # "none") =>
             /\ pc' = "push"
             /\ err' = err
             /\ walk_idx' = walk_idx + 1
             /\ remote' = remote
             /\ put_log' = put_log]_vars

\* C11's case: a PUT failed after a file was skipped and another was
\* uploaded, with files of the walk still to come.
C11_Witness ==
    /\ pc = "aborted"
    /\ err.stage = "push"
    /\ remote # EmptyDisk
    /\ \E i \in 1..Len(stdout) : stdout[i].msg = "Skipping sensitive-name"
    /\ walk_idx + 1 < Len(WalkList(tree))

\* ---------------------------------------------------------------------
\* A required setting is absent or the provider is not a supported one.
ConfigIncomplete ==
    \/ ~cfg.github_token
    \/ ~cfg.github_owner
    \/ ~cfg.provider_key
    \/ cfg.llm_provider \notin SupportedProviders

\* No request of any kind has gone out.
NoRequestIssued ==
    /\ llm_calls = 0
    /\ repo_resp = NoResp
    /\ put_log = <<>>
    /\ remote = EmptyDisk
    /\ deploy_req = NoDeployReq
    /\ poll_data = NoPollData
    /\ err.stage \notin {"create_repo", "push", "deploy", "poll"}

\* C12: when the repository token or owner, or the key of the selected
\* provider, is absent, or the provider is not a supported one, the run
\* ends with a configuration error (SystemExit) at its guard or at the
\* first call_llm, and no request of any kind has gone out.
C12_ConfigErrorBeforeNetwork ==
    /\ [](ConfigIncomplete =>
             /\ NoRequestIssued
             /\ pc \in {"start", "plan", "aborted"}
             /\ pc = "plan" => cfg.github_token /\ cfg.github_owner
             /\ pc = "aborted" =>
                   /\ err.stage \in {"start", "plan"}
                   /\ err.error \in {"SystemExit: Missing setting",
                                      "SystemExit: Missing API key",
                                      "SystemExit: Unsupported LLM_PROVIDER"})
    /\ [][(ConfigIncomplete /\ pc = "plan") => pc' = "aborted"]_vars
    /\ [][(pc = "start" /\ ~(cfg.github_token /\ cfg.github_owner)) =>
             pc' = "aborted"]_vars

\* C12's case: the key of the selected provider is absent and the run
\* ended at its first call_llm.
C12_Witness ==
    /\ pc = "aborted"
    /\ ~cfg.provider_key
    /\ err = [stage |-> "plan", error |-> "SystemExit: Missing API key"]
    /\ NoRequestIssued

\* ---------------------------------------------------------------------
\* The texts call_llm returns for the replies of the provider.
ReceivedReplies == {Strip(r, Whitespace) : r \in Replies}

\* C13: a provider request that fails, by its status (the SystemExit of
\* call_llm) or in the transport, ends the run and is never retried or
\* repaired: each call_llm sends one
\* request, after the failure no request of any kind goes out and nothing
\* is written, and the repair call is made only after a reply that was
\* received and did not parse.
C13_ProviderErrorIsFatal ==
    /\ [](err.error \in {"SystemExit", "ConnectionError"} =>
             /\ pc = "aborted"
             /\ err.stage = "plan"
             /\ llm_calls \in {1, 2}
             /\ data = NoDoc
             /\ tree \in InitialTrees
             /\ repo_resp = NoResp
             /\ put_log = <<>>
             /\ deploy_req = NoDeployReq)
    /\ [](pc = "repair" =>
             /\ err = NoErr
             /\ llm_calls = 1
             /\ plan_raw \in ReceivedReplies
             /\ ~FirstParse(plan_raw).ok)
    /\ [][(pc \in {"plan", "repair"} /\ ~ConfigIncomplete) =>
             llm_calls' = llm_calls + 1]_vars
    /\ [][pc \notin {"plan", "repair"} => llm_calls' = llm_calls]_vars
    /\ [][(pc = "plan" /\ plan_raw' = plan_raw) => pc' = "aborted"]_vars

\* C13's case: the first provider request failed and the run ended there.
C13_Witness ==
    /\ pc = "aborted"
    /\ err = [stage |-> "plan", error |-> "SystemExit"]
    /\ llm_calls = 1
    /\ plan_raw = <<>>

\* ---------------------------------------------------------------------
\* C14: without RENDER_API_KEY no deploy request and no status request is
\* ever made and live_urls stays empty; a deploy that ended failed or
\* timed out does not end the run with an error; whenever main has come
\* to its summary it prints it; and the summary printed carries
\* live_urls, so the placeholder of the failed or timed-out deploy.
C14_DeployOptionalAndNonFatal ==
    /\ [](~cfg.render_api_key =>
             /\ deploy_req = NoDeployReq
             /\ deploy_id = ""
             /\ poll_data = NoPollData
             /\ live_urls = <<>>
             /\ pc \notin {"deploy", "poll", "poll_sleep"}
             /\ err.stage \notin {"deploy", "poll"})
    /\ [](live_urls \in {<<FailedPlaceholder>>, <<TimeoutPlaceholder>>} =>
             /\ pc \in {"summary", "done"}
             /\ err = NoErr)
    /\ [](pc = "done" =>
             /\ err = NoErr
             /\ Last(stdout) = Say("Summary", live_urls))
    /\ [](Printed("No Render API key provided") => ~cfg.render_api_key)
    /\ (pc = "summary") ~> (pc = "done")

\* C14's case: the deploy ended failed and the summary was printed with
\* the failure placeholder.
C14_Witness ==
    /\ pc = "done"
    /\ cfg.render_api_key
    /\ poll_data.status \in FailureStatuses
    /\ Last(stdout) = Say("Summary", <<FailedPlaceholder>>)

\* C14's other case: without RENDER_API_KEY the summary was printed and no
\* deploy was requested.
C14_WitnessNoKey ==
    /\ pc = "done"
    /\ ~cfg.render_api_key
    /\ deploy_req = NoDeployReq
    /\ Last(stdout) = Say("Summary", <<>>)

\* ---------------------------------------------------------------------
RECURSIVE EnvValueTokens(_, _)
\* The value text of an environment file, as load_dotenv reads it: what
\* follows the "=" of an assignment, and while a quote is open (open) the
\* lines that follow, up to the closing quote.
EnvValueTokens(lines, open) ==
    IF lines = <<>> THEN {}
    ELSE LET l == Head(lines)
             val == IF open THEN l
                    ELSE IF HasEq(l) /\ ~IsComment(l)
                    THEN SubSeq(l, Len(EnvKey(l)) + 2, Len(l))
                    ELSE <<>>
             quotes == Cardinality({i \in 1..Len(val) : val[i] = "dquote"})
             open2 == IF quotes % 2 = 1 THEN ~open ELSE open
         IN ({val[i] : i \in 1..Len(val)} \ {"dquote"})
                \cup EnvValueTokens(Tail(lines), open2)

\* The tokens of a text read by lines.
TokensOf(lines) == UNION {{lines[i][j] : j \in 1..Len(lines[i])} : i \in 1..Len(lines)}

\* The safety step has run.
AfterSafetyFiles ==
    pc \in {"push", "deploy", "poll", "poll_sleep", "summary", "done"}
        \/ err.stage \in {"push", "deploy", "poll"}

\* C15: once create_env_example has run, .env.example exists only if .env
\* does, and no value text of .env appears in it, nor in what the push
\* uploads as .env.example.
C15_ExampleMasksEveryValue ==
    AfterSafetyFiles =>
        /\ P_env \notin DOMAIN tree.disk => P_env_example \notin DOMAIN tree.disk
        /\ (P_env \in DOMAIN tree.disk /\ P_env_example \in DOMAIN tree.disk) =>
              TokensOf(tree.disk[P_env_example].lines)
                  \cap EnvValueTokens(tree.disk[P_env].lines, FALSE) = {}
        /\ (P_env \in DOMAIN tree.disk /\ P_env_example \in DOMAIN remote) =>
              TokensOf(remote[P_env_example].lines)
                  \cap EnvValueTokens(tree.disk[P_env].lines, FALSE) = {}

\* What does hold for C15: .env.example exists only if .env does, it has a
\* line for each line of .env, and each line of .env that holds a "=" and
\* is no comment is replaced by its key and the placeholder, so that what
\* follows the "=" on that line is gone.
C15_AssignmentLinesMasked ==
    AfterSafetyFiles =>
        /\ P_env \notin DOMAIN tree.disk => P_env_example \notin DOMAIN tree.disk
        /\ P_env \in DOMAIN tree.disk =>
              /\ P_env_example \in DOMAIN tree.disk
              /\ LET env == tree.disk[P_env].lines
                     ex == tree.disk[P_env_example].lines
                 IN /\ Len(ex) = Len(env)
                    /\ \A i \in 1..Len(env) :
                          (HasEq(env[i]) /\ ~IsComment(env[i])) =>
                              ex[i] = EnvKey(env[i]) \o <<"=", "YOUR_">>
                                          \o EnvKey(env[i]) \o <<"_HERE">>

\* ---------------------------------------------------------------------
\* The text between the code-fence markers of a reply: the runs of
\* backticks at both ends, the language tag that follows the opening run,
\* and the white space around what is left, removed.
FenceBody(raw) ==
    LET a == LStrip(raw, {"backtick"})
        b == IF Len(a) < Len(raw) /\ a # <<>> /\ Head(a).t = "word"
             THEN Tail(a) ELSE a
    IN Strip(RStrip(b, {"backtick"}), Whitespace)

\* The same without a language tag: backticks and white space removed from
\* both ends.
FenceBodyUntagged(raw) == Strip(raw, {"backtick", "nl"})

\* The text is one JSON document.
IsJsonText(text) == Len(text) = 1 /\ text[1].t = "json"

\* C16: when the first reply, its code-fence markers and the white space
\* around it removed, is a JSON document, no repair call is made and
\* generate_scaffold returns that document after one provider call.
C16_ValidFirstReplyReturnedAfterOneCall ==
    /\ pc = "repair" => ~IsJsonText(FenceBody(plan_raw))
    /\ (pc = "materialize" /\ llm_calls = 1) =>
          /\ IsJsonText(FenceBody(plan_raw))
          /\ data = FenceBody(plan_raw)[1].doc

\* What does hold for C16: a first reply that is a JSON document between
\* backticks and white space only (no language tag) is returned as parsed
\* after one provider call, and main reads a key the document lacks as the
\* empty plan text and the empty file list.
C16_UntaggedReplyReturnedAfterOneCall ==
    /\ [](pc = "repair" => ~IsJsonText(FenceBodyUntagged(plan_raw)))
    /\ []((pc = "materialize" /\ llm_calls = 1) =>
             /\ IsJsonText(FenceBodyUntagged(plan_raw))
             /\ data = FenceBodyUntagged(plan_raw)[1].doc)
    /\ [][(pc = "materialize" /\ data.type = "object") =>
             /\ plan' = IF "plan" \in data.keys THEN data.plan ELSE ""
             /\ files' = IF "files" \in data.keys THEN data.files ELSE <<>>]_vars

\* ---------------------------------------------------------------------
\* The place of a position of main in the order of its stages.
StageRank(p) ==
    CASE p = "start" -> 0
      [] p \in {"plan", "repair"} -> 1
      [] p = "materialize" -> 2
      [] p = "create_repo" -> 3
      [] p = "safety_files" -> 4
      [] p = "push" -> 5
      [] p = "deploy" -> 6
      [] p \in {"poll", "poll_sleep"} -> 7
      [] p = "summary" -> 8
      [] OTHER -> 9

\* C17: main goes through its stages in the order plan, materialize,
\* create repository, safety files, push, deploy, poll, summary, never
\* back and with no stage up to the push left out; the repository is created after the files were materialized; a
\* file is uploaded only after create_github_repo returned and .gitignore
\* and (when there is a .env) .env.example were written; and the deploy is
\* requested only when the push went over the whole tree.
C17_StagesInOrder ==
    /\ [][pc' = "aborted" \/ StageRank(pc') >= StageRank(pc)]_vars
    /\ [][(pc' # "aborted" /\ StageRank(pc) < StageRank("push")) =>
             StageRank(pc') <= StageRank(pc) + 1]_vars
    /\ [](repo_resp # NoResp =>
             /\ llm_calls >= 1
             /\ data.type = "object"
             /\ Printed("Writing LLM-generated files")
                    \/ Printed("LLM returned no files; creating minimal scaffold"))
    /\ [](put_log # <<>> =>
             /\ repo_resp # NoResp
             /\ repo # NoRepo
             /\ P_gitignore \in DOMAIN tree.disk
             /\ tree.disk[P_gitignore] = CGitignore
             /\ P_env \in DOMAIN tree.disk =>
                   /\ P_env_example \in DOMAIN tree.disk
                   /\ tree.disk[P_env_example] = MaskEnv(tree.disk[P_env]))
    /\ [](deploy_req # NoDeployReq =>
             /\ err.stage # "push"
             /\ walk_idx = Len(WalkList(tree))
             /\ \A i \in 1..Len(put_log) : put_log[i].path \in DOMAIN remote
             /\ Printed("Repo ready"))
    /\ [](Printed("Summary") => pc = "done")

\* C17's case: a run went through every stage, with files uploaded, a
\* .env.example written and a deploy polled.
C17_Witness ==
    /\ pc = "done"
    /\ put_log # <<>>
    /\ P_env_example \in DOMAIN tree.disk
    /\ deploy_req # NoDeployReq
    /\ poll_data # NoPollData

\* ---------------------------------------------------------------------
\* rel lies inside a directory whose name is one of skip_dirs.
InExcludedDir(rel) ==
    \E i \in 1..Len(Split(DirName(rel))) : Split(DirName(rel))[i] \in skip_dirs

\* rel lies inside a directory whose path holds one of skip_dirs as a
\* piece of text.
InDirWithExcludedText(rel) == \E skip \in skip_dirs : Contains(DirPath(rel), skip)

\* push_repo_from_disk has returned.
PushReturned == Printed("Repo ready")

\* The files of the tree fs that are to be uploaded, when the walk leaves
\* out the files of the set excluded.
ToUpload(fs, excluded) ==
    {rel \in DOMAIN fs.disk \ excluded :
        InsideRoot(rel) /\ SkipReason(rel, fs.disk[rel]) = "none"}

\* Each request of the log is for a different path, with the message
\* Add <path>, on the branch main, and the repository holds its content.
OnceEachOnMain ==
    /\ \A i, j \in 1..Len(put_log) : put_log[i].path = put_log[j].path => i = j
    /\ \A i \in 1..Len(put_log) :
          /\ put_log[i].message = <<"Add">> \o put_log[i].path
          /\ put_log[i].branch = "main"
          /\ put_log[i].path \in DOMAIN remote
          /\ remote[put_log[i].path] = tree.disk[put_log[i].path]

\* C18: when push_repo_from_disk has returned, the files uploaded are
\* exactly the files under the root that are in no directory named .git,
\* .venv, __pycache__, .idea, .vscode or node_modules and have no skip
\* reason, each uploaded once with the message Add <path> on the branch
\* main; so a file in .github is uploaded.
C18_UploadsAllButExcludedDirs ==
    PushReturned =>
        /\ {put_log[i].path : i \in 1..Len(put_log)} = ToUpload(tree, {rel \in DOMAIN tree.disk : InExcludedDir(rel)})
        /\ DOMAIN remote = ToUpload(tree, {rel \in DOMAIN tree.disk : InExcludedDir(rel)})
        /\ OnceEachOnMain

\* What does hold for C18: the same with the files left out being those
\* in a directory whose path holds an excluded name as a piece of text.
C18_UploadsAllButExcludedText ==
    PushReturned =>
        /\ {put_log[i].path : i \in 1..Len(put_log)}
               = ToUpload(tree, {rel \in DOMAIN tree.disk :
                                           InDirWithExcludedText(rel)})
        /\ DOMAIN remote =
              ToUpload(tree, {rel \in DOMAIN tree.disk : InDirWithExcludedText(rel)})
        /\ OnceEachOnMain

\* ---------------------------------------------------------------------
\* push_repo_from_disk is running or has ended on a failed PUT.
InPush == pc = "push" \/ err.stage = "push"

C20_DeployBranchIsPushBranch ==
    deploy_req # NoDeployReq =>
        \A i \in 1..Len(put_log) : put_log[i].branch = deploy_req.branch

\* What does hold for C20: the deploy request names RENDER_REPO_BRANCH,
\* every upload goes to main, and the two agree when RENDER_REPO_BRANCH is
\* main.
C20_BranchesAgreeOnMainOnly ==
    /\ \A i \in 1..Len(put_log) : put_log[i].branch = "main"
    /\ deploy_req # NoDeployReq =>
          /\ deploy_req.branch = cfg.render_repo_branch
          /\ cfg.render_repo_branch = "main" =>
                \A i \in 1..Len(put_log) : put_log[i].branch = deploy_req.branch

====
